---- MODULE Spec2Model ----
(***************************************************************************)
(* The request admission pipeline of keycloak-proxy: the gin middleware    *)
(* chain securityHandler -> entryPointHandler -> authenticationHandler ->  *)
(* admissionHandler -> upstreamHeadersHandler -> reverse proxy, together   *)
(* with the refresh-token store and its background updates.                *)
(*                                                                         *)
(* Strings that the code tests with strings.HasPrefix (paths, resource     *)
(* urls) are sequences of path chunks; every other string is a TLA+        *)
(* string.  A gin context map is a function from its keys to its values.   *)
(***************************************************************************)
EXTENDS Integers, Sequences, FiniteSets, TLC

VARIABLES
    config,     \* the proxy configuration, frozen after startup
    reqs,       \* the requests being served, by request id
    store,      \* the refresh-token store: access token -> refresh token
    bg,         \* the background store update spawned by each request
    issued      \* number of access tokens the IdP has issued by refresh

vars == <<config, reqs, store, bg, issued>>

-----------------------------------------------------------------------------
(* Bounds of the model *)

\* longest PolicyTable drawn
MaxResources == 2

-----------------------------------------------------------------------------
(* Program constants *)

cxEnforce == "Enforcing"
userContextName == "identity"
oauthURL == <<"/oauth">>
cookieAccessName == "kc-access"
cookieRefreshName == "kc-state"

StatusOK == 200
StatusTemporaryRedirect == 307
StatusUnauthorized == 401
StatusForbidden == 403
StatusBadRequest == 400
\* idle-duration of the sample configuration, in hours
IdleDuration == 24

fakeClientID == "test"

claimAudience == "aud"
claimIssuer == "iss"

-----------------------------------------------------------------------------
(* Input domains *)

EmptyMap == [k \in {} |-> 0]

\* the request served alone, and the two requests of one browser session
RequestIds == {"r1"}
Sessions == {"r1", "r2"}

Methods == {"GET", "POST"}

\* request paths, as chunks: HasPrefix works chunk by chunk
Paths == { <<"/admin">>, <<"/admin", "/white_listed">>, <<"/other">>, <<"/oauth", "/x">> }

\* resource urls; one lies inside the reserved oauth sub-tree
URLs == { <<"/admin">>, <<"/admin", "/white_listed">>, <<"/oauth">> }

MethodLists == { <<>>, <<"GET">>, <<"ANY">> }

RoleLists == { <<>>, <<"role:dev", "admin">> }

Resource(url, methods, roles, whiteListed) ==
    [URL |-> url, Methods |-> methods, Roles |-> roles, WhiteListed |-> whiteListed]

ResourcePool ==
    { Resource(u, <<>>, <<>>, TRUE) : u \in URLs }
    \cup { Resource(u, m, ro, FALSE) : u \in URLs, m \in MethodLists, ro \in RoleLists }

SeqsUpTo(S, n) == UNION { [1..k -> S] : k \in 0..n }

PolicyTables == SeqsUpTo(ResourcePool, MaxResources)

\* match-claims tables: claim name -> pattern (a literal, matched as a regexp)
MatchClaimTables == { EmptyMap, (claimIssuer :> <<"k">>) }

\* every PolicyTable under the switches of the test configuration
TableConfigs ==
    [ Resources : PolicyTables,
      ClientID : {fakeClientID},
      SkipClientID : {FALSE},
      SkipTokenVerification : {FALSE},
      EnableRefreshTokens : {FALSE},
      NoRedirects : {FALSE},
      MatchClaims : {EmptyMap},
      Headers : {EmptyMap},
      AddClaims : {<<>>},
      UseStore : {FALSE} ]

\* every combination of the switches over one-resource PolicyTables
SwitchConfigs ==
    [ Resources : { <<Resource(<<"/admin">>, <<"ANY">>, ro, FALSE)>> :
                      ro \in {<<>>, <<"admin">>} },
      ClientID : {"", fakeClientID},
      SkipClientID : BOOLEAN,
      SkipTokenVerification : BOOLEAN,
      EnableRefreshTokens : BOOLEAN,
      NoRedirects : BOOLEAN,
      MatchClaims : MatchClaimTables,
      Headers : {EmptyMap},
      AddClaims : {<<>>},
      UseStore : BOOLEAN ]

Configs == TableConfigs \cup SwitchConfigs

-----------------------------------------------------------------------------
(* Helpers *)

\* strings.HasPrefix
HasPrefix(s, prefix) ==
    /\ Len(prefix) <= Len(s)
    /\ SubSeq(s, 1, Len(prefix)) = prefix

containedIn(value, list) == \E i \in 1..Len(list) : list[i] = value

hasRoles(required, issuedRoles) ==
    \A i \in 1..Len(required) : containedIn(required[i], issuedRoles)

\* gin.Context.Get / Set on the per-request key map
Found(ctx, key) == key \in DOMAIN ctx
Set(ctx, key, value) == (key :> value) @@ ctx

Remove(f, key) == [k \in DOMAIN f \ {key} |-> f[k]]

-----------------------------------------------------------------------------
(* Tokens and identities *)

StringValue(v) == [kind |-> "string", val |-> v]
OtherValue == [kind |-> "other"]

\* jose.Claims.StringClaim: value, found, err
StringClaim(claims, name) ==
    IF name \notin DOMAIN claims
    THEN [value |-> "", found |-> FALSE, err |-> FALSE]
    ELSE IF claims[name].kind # "string"
    THEN [value |-> "", found |-> FALSE, err |-> TRUE]
    ELSE [value |-> claims[name].val, found |-> TRUE, err |-> FALSE]

\* claims every token of the model carries
BaseClaims ==
    ("sub" :> StringValue("1e11e539")) @@ ("email" :> StringValue("gambol99@gmail.com"))
    @@ ("preferred_username" :> StringValue("rjayawardene"))

AudienceClaims == { EmptyMap, claimAudience :> StringValue(fakeClientID),
                    claimAudience :> StringValue("bad_client_id") }

RealmClaims == { EmptyMap, "realm_access" :> [kind |-> "map", roles |-> <<"admin">>] }

AccessClaims ==
    { EmptyMap,
      "resource_access" :> [kind |-> "map",
                            clients |-> << [name |-> "role", roles |-> <<"dev">>] >>] }

IssuerClaims == { EmptyMap, claimIssuer :> OtherValue, claimIssuer :> StringValue(<<"k">>),
                  claimIssuer :> StringValue(<<"j", "k">>), claimIssuer :> StringValue(<<"j">>) }

Token(e, claims) == [id |-> 0, expired |-> e, claims |-> claims @@ BaseClaims]

\* the access tokens a client may present (token 0 is the session's access
\* token): every audience and role claim, and every issuer claim
Tokens ==
    { Token(e, a @@ rl @@ ac @@ (claimIssuer :> StringValue(<<"k">>))) :
        e \in BOOLEAN, a \in AudienceClaims, rl \in RealmClaims, ac \in AccessClaims }
    \cup { Token(e, is @@ (claimAudience :> StringValue(fakeClientID))
                     @@ ("realm_access" :> [kind |-> "map", roles |-> <<"admin">>])) :
              e \in BOOLEAN, is \in IssuerClaims }

NoToken == [id |-> 0, expired |-> FALSE, claims |-> EmptyMap]

\* what the request carries: nothing, an Authorization bearer header, a session
\* cookie, or a session cookie that does not decrypt
Credentials ==
    { [kind |-> k, token |-> NoToken] : k \in {"none", "badcookie"} }
    \cup { [kind |-> k, token |-> t] : k \in {"bearer", "cookie"}, t \in Tokens }

RECURSIVE prefixed_Verbatim(_, _, _)
\* prefixed without the client's name in front of the role
prefixed_Verbatim(roleName, roles, i) ==
    IF i > Len(roles) THEN <<>>
    ELSE <<roles[i]>> \o prefixed_Verbatim(roleName, roles, i + 1)

RECURSIVE prefixed(_, _, _)
\* fmt.Sprintf("%s:%s", roleName, r) for each r of roles, from index i
prefixed(roleName, roles, i) ==
    IF i > Len(roles) THEN <<>>
    ELSE <<roleName \o ":" \o roles[i]>> \o prefixed(roleName, roles, i + 1)

RECURSIVE clientRoles(_, _)
clientRoles(clients, i) ==
    IF i > Len(clients) THEN <<>>
    ELSE prefixed(clients[i].name, clients[i].roles, 1) \o clientRoles(clients, i + 1)

Ok(v) == [err |-> "", val |-> v]
Err(e) == [err |-> e, val |-> 0]

\* IdentityFromClaims with the email claim required as well
IdentityFromClaims_EmailRequired(claims) ==
    LET sub == StringClaim(claims, "sub")
        email == StringClaim(claims, "email")
    IN  IF sub.err \/ email.err THEN Err("ErrClaimNotString")
        ELSE IF ~sub.found \/ ~email.found THEN Err("ErrMissingClaim")
        ELSE Ok([ID |-> sub.value, Email |-> email.value])

\* oidc.IdentityFromClaims: sub is required, email is optional, and either must
\* be a string if it is there
IdentityFromClaims(claims) ==
    LET sub == StringClaim(claims, "sub")
        email == StringClaim(claims, "email")
    IN  IF sub.err THEN Err("ErrClaimNotString")
        ELSE IF ~sub.found THEN Err("ErrMissingSubject")
        ELSE IF email.err THEN Err("ErrClaimNotString")
        ELSE Ok([ID |-> sub.value, Email |-> email.value])

extractIdentity(token) ==
    LET claims == token.claims
        identity == IdentityFromClaims(claims)
        preferred == StringClaim(claims, "preferred_username")
        preferredName == IF preferred.err \/ ~preferred.found THEN identity.val.Email
                         ELSE preferred.value
        audience == StringClaim(claims, claimAudience)
        realm == IF "realm_access" \in DOMAIN claims
                 THEN claims["realm_access"].roles ELSE <<>>
        access == IF "resource_access" \in DOMAIN claims
                  THEN clientRoles(claims["resource_access"].clients, 1) ELSE <<>>
    IN  IF identity.err # "" THEN identity
        ELSE IF audience.err \/ ~audience.found THEN Err("ErrNoTokenAudience")
        ELSE Ok([ id |-> identity.val.ID,
                  name |-> preferredName,
                  audience |-> audience.value,
                  preferredName |-> preferredName,
                  email |-> identity.val.Email,
                  expired |-> token.expired,
                  roles |-> realm \o access,
                  token |-> token.id,
                  claims |-> claims,
                  bearerToken |-> FALSE ])

isAudience(user, aud) == user.audience = aud
isExpired(user) == user.expired
isBearer(user) == user.bearerToken

\* getIdentity: the bearer header first, then the session cookie
getIdentity(cred) ==
    IF cred.kind = "bearer"
    THEN LET got == extractIdentity(cred.token)
         IN  IF got.err # "" THEN got ELSE Ok([got.val EXCEPT !.bearerToken = TRUE])
    ELSE IF cred.kind = "cookie" THEN extractIdentity(cred.token)
    ELSE Err("ErrSessionNotFound")

-----------------------------------------------------------------------------
(* Requests and responses *)

\* the chain the router runs for every request, in order
Chain == <<"security", "entrypoint", "authentication", "admission", "headers", "proxy">>

IdleRequest ==
    [ pc |-> "idle",            \* the handler to run next
      path |-> <<>>, method |-> "",
      ctx |-> EmptyMap,        \* gin context keys
      aborted |-> FALSE,       \* cx.Abort was called
      status |-> 0,            \* response status, 0 while unwritten
      writes |-> 0,            \* number of times a status was written
      by |-> "none",           \* what answered the request in the upstream's place
      cookies |-> EmptyMap,    \* Set-Cookie of the response
      headers |-> EmptyMap,    \* request headers as sent on to the upstream
      forwarded |-> FALSE,     \* upstream.ServeHTTP was called
      panicked |-> FALSE,
      \* what the request carried and what the stages decided, as read
      cred |-> [kind |-> "unread", token |-> NoToken],
      verified |-> "none",     \* verifyToken's answer
      lookup |-> "none",       \* retrieveRefreshToken's answer
      refresh |-> "none",      \* getRefreshedToken's answer
      idpCalls |-> 0,
      denied |-> "none",       \* the admission check that denied
      err |-> "" ]             \* the error getIdentity returned, as logged

\* a background store update: its position, its arguments t and rt, the access
\* cookie the response held when it was dispatched, and its store errors so far
NoTask == [pc |-> "none", t |-> 0, rt |-> "", sent |-> "", errs |-> 0]

\* the value of a cookie of the response, "" if it was never written
CookieValue(req, name) ==
    IF name \in DOMAIN req.cookies THEN req.cookies[name].value ELSE ""

\* Advance going on to the next handler of the chain after an abort
Advance_PastAbort(req) ==
    LET i == CHOOSE k \in 1..Len(Chain) : Chain[k] = req.pc
    IN  [req EXCEPT !.pc = IF i = Len(Chain) THEN "done" ELSE Chain[i + 1]]

\* the handler after the one at pc; an aborted context runs no further handler
Advance(req) ==
    IF req.aborted \/ req.panicked THEN [req EXCEPT !.pc = "done"]
    ELSE LET i == CHOOSE k \in 1..Len(Chain) : Chain[k] = req.pc
         IN  [req EXCEPT !.pc = IF i = Len(Chain) THEN "done" ELSE Chain[i + 1]]

\* gin's AbortWithStatus, called by the helper or library named by
AbortWithStatus(req, code, by) ==
    [req EXCEPT !.aborted = TRUE, !.status = code, !.writes = @ + 1, !.by = by]

accessForbidden(req) == AbortWithStatus(req, StatusForbidden, "accessForbidden")

\* the statuses redirectToAuthorization may answer under a configuration
redirectStatuses(cfg) ==
    IF cfg.NoRedirects /\ cfg.SkipTokenVerification
    THEN {StatusUnauthorized, StatusForbidden}
    ELSE IF cfg.NoRedirects THEN {StatusUnauthorized}
    ELSE IF cfg.SkipTokenVerification THEN {StatusForbidden}
    ELSE {StatusTemporaryRedirect}

\* redirectToAuthorization writing its status without aborting the chain
redirectToAuthorization_NoAbort(req, code) ==
    [req EXCEPT !.status = code, !.writes = @ + 1, !.by = "redirectToAuthorization"]

redirectToAuthorization(req, code) == AbortWithStatus(req, code, "redirectToAuthorization")

\* jose.JWT.Encode: the compact serialisation, one per token
Encode(token) == "jwt-" \o ToString(token)

dropAccessTokenCookie(req, value, duration) ==
    [req EXCEPT !.cookies = Set(@, cookieAccessName, [value |-> value, ttl |-> duration])]

dropRefreshTokenCookie(req, value, duration) ==
    [req EXCEPT !.cookies = Set(@, cookieRefreshName, [value |-> value, ttl |-> duration])]

clearAllCookies(req) ==
    [req EXCEPT !.cookies = Set(Set(@, cookieAccessName, [value |-> "", ttl |-> -1]),
                                cookieRefreshName, [value |-> "", ttl |-> -1])]

-----------------------------------------------------------------------------
(* entryPointHandler *)

\* coversMethod with any listed method covering every request
coversMethod_AnyListed(resource, method) == Len(resource.Methods) > 0

\* middleware.go:73: the resource covers the request method
coversMethod(resource, method) ==
    containedIn("ANY", resource.Methods) \/ containedIn(method, resource.Methods)

RECURSIVE matchResources_PastWhiteListed(_, _, _, _, _)
\* matchResources with the loop going on past a whitelisted match
matchResources_PastWhiteListed(resources, i, path, method, ctx) ==
    IF i > Len(resources) THEN ctx
    ELSE LET resource == resources[i]
         IN  IF HasPrefix(path, resource.URL) /\ ~resource.WhiteListed
             THEN IF coversMethod(resource, method)
                  THEN Set(ctx, cxEnforce, resource)
                  ELSE ctx
             ELSE matchResources_PastWhiteListed(resources, i + 1, path, method, ctx)

RECURSIVE matchResources_PastUncovered(_, _, _, _, _)
\* matchResources with the loop going on past a match that does not cover the method
matchResources_PastUncovered(resources, i, path, method, ctx) ==
    IF i > Len(resources) THEN ctx
    ELSE LET resource == resources[i]
         IN  IF HasPrefix(path, resource.URL) /\ resource.WhiteListed THEN ctx
             ELSE IF HasPrefix(path, resource.URL) /\ coversMethod(resource, method)
             THEN Set(ctx, cxEnforce, resource)
             ELSE matchResources_PastUncovered(resources, i + 1, path, method, ctx)

RECURSIVE matchResources(_, _, _, _, _)
\* the loop over config.Resources from index i: the context it leaves
matchResources(resources, i, path, method, ctx) ==
    IF i > Len(resources) THEN ctx
    ELSE LET resource == resources[i]
         IN  IF HasPrefix(path, resource.URL)
             THEN IF resource.WhiteListed THEN ctx
                  ELSE IF coversMethod(resource, method)
                       THEN Set(ctx, cxEnforce, resource)
                       ELSE ctx
             ELSE matchResources(resources, i + 1, path, method, ctx)

\* entryPoint without the short-circuit of the oauth sub-tree
entryPoint_NoShortCircuit(cfg, req) ==
    [req EXCEPT !.ctx = matchResources(cfg.Resources, 1, req.path, req.method, @)]

\* middleware.go:59-82
entryPoint(cfg, req) ==
    IF HasPrefix(req.path, oauthURL) THEN req
    ELSE [req EXCEPT !.ctx = matchResources(cfg.Resources, 1, req.path, req.method, @)]

-----------------------------------------------------------------------------
(* authenticationHandler *)

\* what one run of a handler leaves: the request, the background task it
\* spawned (NoTask if none) and the IdP's issue counter
Result(req, task, n) == [req |-> req, task |-> task, issued |-> n]

Redirected(cfg, req, n) ==
    { Result(redirectToAuthorization(req, code), NoTask, n) : code \in redirectStatuses(cfg) }

\* verifyToken: nil, ErrAccessTokenExpired or another error
verifyToken(token) ==
    IF token.expired THEN {"expired", "invalid"} ELSE {"ok", "invalid"}

useStore(cfg) == cfg.UseStore

\* retrieveRefreshToken: from the store by the access token, else from the
\* refresh cookie the request carries (absent, undecryptable or present)
retrieveRefreshToken(cfg, user, st) ==
    IF useStore(cfg)
    THEN IF user.token \in DOMAIN st
         THEN { [lookup |-> "found", rToken |-> st[user.token]] }
         ELSE { [lookup |-> "missing", rToken |-> ""] }
    ELSE { [lookup |-> "missing", rToken |-> ""],
           [lookup |-> "undecryptable", rToken |-> ""],
           [lookup |-> "found", rToken |-> "rt0"] }

\* getRefreshedToken: a new token, ErrRefreshTokenExpired or another error
getRefreshedToken == {"ok", "expired", "error"}

\* refreshed with the store update dispatched before the access cookie is written
refreshed_DispatchFirst(cfg, req, user, rToken, token) ==
    LET task == IF useStore(cfg)
                THEN [pc |-> "delete", t |-> user.token, rt |-> rToken,
                      sent |-> CookieValue(req, cookieAccessName), errs |-> 0]
                ELSE NoTask
        req1 == dropAccessTokenCookie(req, Encode(token), IdleDuration)
        req2 == IF useStore(cfg) THEN req1
                ELSE dropRefreshTokenCookie(req1, rToken, IdleDuration * 2)
        user1 == [user EXCEPT !.token = token]
    IN  Result([req2 EXCEPT !.ctx = Set(@, userContextName, user1)], task, token)

\* refreshed leaving the expired token in the identity
refreshed_KeepToken(cfg, req, user, rToken, token) ==
    LET req1 == dropAccessTokenCookie(req, Encode(token), IdleDuration)
        task == IF useStore(cfg)
                THEN [pc |-> "delete", t |-> user.token, rt |-> rToken,
                      sent |-> CookieValue(req1, cookieAccessName), errs |-> 0]
                ELSE NoTask
        req2 == IF useStore(cfg) THEN req1
                ELSE dropRefreshTokenCookie(req1, rToken, IdleDuration * 2)
    IN  Result([req2 EXCEPT !.ctx = Set(@, userContextName, user)], task, token)

\* refreshed taking the expiry of the new token into the identity as well
refreshed_ResetExpiry(cfg, req, user, rToken, token) ==
    LET req1 == dropAccessTokenCookie(req, Encode(token), IdleDuration)
        task == IF useStore(cfg)
                THEN [pc |-> "delete", t |-> user.token, rt |-> rToken,
                      sent |-> CookieValue(req1, cookieAccessName), errs |-> 0]
                ELSE NoTask
        req2 == IF useStore(cfg) THEN req1
                ELSE dropRefreshTokenCookie(req1, rToken, IdleDuration * 2)
        user1 == [user EXCEPT !.token = token, !.expired = FALSE]
    IN  Result([req2 EXCEPT !.ctx = Set(@, userContextName, user1)], task, token)

\* refreshed writing the refresh cookie whether or not a store is configured
refreshed_BothModes(cfg, req, user, rToken, token) ==
    LET req1 == dropAccessTokenCookie(req, Encode(token), IdleDuration)
        task == IF useStore(cfg)
                THEN [pc |-> "delete", t |-> user.token, rt |-> rToken,
                      sent |-> CookieValue(req1, cookieAccessName), errs |-> 0]
                ELSE NoTask
        req2 == dropRefreshTokenCookie(req1, rToken, IdleDuration * 2)
        user1 == [user EXCEPT !.token = token]
    IN  Result([req2 EXCEPT !.ctx = Set(@, userContextName, user1)], task, token)

\* middleware.go:199-235: the refresh succeeded with a new access token
refreshed(cfg, req, user, rToken, token) ==
    LET req1 == dropAccessTokenCookie(req, Encode(token), IdleDuration)
        task == IF useStore(cfg)
                THEN [pc |-> "delete", t |-> user.token, rt |-> rToken,
                      sent |-> CookieValue(req1, cookieAccessName), errs |-> 0]
                ELSE NoTask
        req2 == IF useStore(cfg) THEN req1
                ELSE dropRefreshTokenCookie(req1, rToken, IdleDuration * 2)
        user1 == [user EXCEPT !.token = token]
    IN  Result([req2 EXCEPT !.ctx = Set(@, userContextName, user1)], task, token)

\* afterLookup leaving the cookies in place when the refresh token has expired
afterLookup_KeepCookies(cfg, req, user, rToken, n) ==
    UNION { LET req1 == [req EXCEPT !.refresh = outcome, !.idpCalls = @ + 1]
            IN  IF outcome = "ok" THEN { refreshed(cfg, req1, user, rToken, n + 1) }
                ELSE Redirected(cfg, req1, n)
            : outcome \in getRefreshedToken }

\* afterLookup clearing the cookies on every failed refresh
afterLookup_ClearAlways(cfg, req, user, rToken, n) ==
    UNION { LET req1 == [req EXCEPT !.refresh = outcome, !.idpCalls = @ + 1]
            IN  IF outcome = "ok" THEN { refreshed(cfg, req1, user, rToken, n + 1) }
                ELSE Redirected(cfg, clearAllCookies(req1), n)
            : outcome \in getRefreshedToken }

\* middleware.go:183-236: the refresh token was found
afterLookup(cfg, req, user, rToken, n) ==
    UNION { LET req1 == [req EXCEPT !.refresh = outcome, !.idpCalls = @ + 1]
            IN  IF outcome = "ok" THEN { refreshed(cfg, req1, user, rToken, n + 1) }
                ELSE IF outcome = "expired" THEN Redirected(cfg, clearAllCookies(req1), n)
                ELSE Redirected(cfg, req1, n)
            : outcome \in getRefreshedToken }

\* afterExpired refreshing the token of a bearer header as well
afterExpired_RefreshBearer(cfg, req, user, st, n) ==
    IF ~cfg.EnableRefreshTokens THEN Redirected(cfg, req, n)
    ELSE UNION { LET req1 == [req EXCEPT !.lookup = got.lookup]
                 IN  IF got.lookup # "found" THEN Redirected(cfg, req1, n)
                     ELSE afterLookup(cfg, req1, user, got.rToken, n)
                 : got \in retrieveRefreshToken(cfg, user, st) }

\* afterExpired answering access forbidden when no refresh token is found
afterExpired_ForbidMissing(cfg, req, user, st, n) ==
    IF ~cfg.EnableRefreshTokens THEN Redirected(cfg, req, n)
    ELSE IF isBearer(user) THEN Redirected(cfg, req, n)
    ELSE UNION { LET req1 == [req EXCEPT !.lookup = got.lookup]
                 IN  IF got.lookup # "found"
                     THEN { Result(accessForbidden(req1), NoTask, n) }
                     ELSE afterLookup(cfg, req1, user, got.rToken, n)
                 : got \in retrieveRefreshToken(cfg, user, st) }

\* middleware.go:140-177: the access token has expired
afterExpired(cfg, req, user, st, n) ==
    IF ~cfg.EnableRefreshTokens THEN Redirected(cfg, req, n)
    ELSE IF isBearer(user) THEN Redirected(cfg, req, n)
    ELSE UNION { LET req1 == [req EXCEPT !.lookup = got.lookup]
                 IN  IF got.lookup # "found" THEN Redirected(cfg, req1, n)
                     ELSE afterLookup(cfg, req1, user, got.rToken, n)
                 : got \in retrieveRefreshToken(cfg, user, st) }

\* afterVerify with a failed verification let through unless it is an expiry
afterVerify_AcceptInvalid(cfg, req, user, st, n) ==
    IF req.verified # "expired" THEN { Result(req, NoTask, n) }
    ELSE afterExpired(cfg, req, user, st, n)

\* afterVerify with every failed verification handled as an expiry
afterVerify_RefreshInvalid(cfg, req, user, st, n) ==
    IF req.verified = "ok" THEN { Result(req, NoTask, n) }
    ELSE afterExpired(cfg, req, user, st, n)

\* middleware.go:126-238: verification of the access token
afterVerify(cfg, req, user, st, n) ==
    IF req.verified = "ok" THEN { Result(req, NoTask, n) }
    ELSE IF req.verified # "expired" THEN { Result(accessForbidden(req), NoTask, n) }
    ELSE afterExpired(cfg, req, user, st, n)

\* noSession answering access forbidden
noSession_Forbid(cfg, req, n) == { Result(accessForbidden(req), NoTask, n) }

\* middleware.go:98-105: no identity in the request
noSession(cfg, req, n) == Redirected(cfg, req, n)

\* skipVerification without the expiry check
skipVerification_NoExpiry(cfg, req, user, n) == { Result(req, NoTask, n) }

\* skipVerification verifying the signature of a token that has not expired
skipVerification_Verifies(cfg, req, user, n) ==
    IF isExpired(user) THEN Redirected(cfg, req, n)
    ELSE { Result([req EXCEPT !.verified = v], NoTask, n)
           : v \in verifyToken(req.cred.token) }

\* middleware.go:111-124: verification is switched off
skipVerification(cfg, req, user, n) ==
    IF isExpired(user) THEN Redirected(cfg, req, n)
    ELSE { Result(req, NoTask, n) }

\* afterIdentity answering a session cookie that does not decrypt as an
\* invalid identity
afterIdentity_ForbidUndecryptable(cfg, req, st, n) ==
    LET got == getIdentity(req.cred)
        user == got.val
        req1 == [req EXCEPT !.ctx = Set(@, userContextName, user)]
    IN  IF req.cred.kind = "badcookie"
        THEN { Result(accessForbidden([req EXCEPT !.err = got.err]), NoTask, n) }
        ELSE IF got.err # "" THEN noSession(cfg, [req EXCEPT !.err = got.err], n)
        ELSE IF cfg.SkipTokenVerification THEN skipVerification(cfg, req1, user, n)
        ELSE UNION { afterVerify(cfg, [req1 EXCEPT !.verified = v], user, st, n)
                     : v \in verifyToken(req.cred.token) }

\* middleware.go:96-238: the handler once the resource is known to be enforced
afterIdentity(cfg, req, st, n) ==
    LET got == getIdentity(req.cred)
        user == got.val
        req1 == [req EXCEPT !.ctx = Set(@, userContextName, user)]
    IN  IF got.err # "" THEN noSession(cfg, [req EXCEPT !.err = got.err], n)
        ELSE IF cfg.SkipTokenVerification THEN skipVerification(cfg, req1, user, n)
        ELSE UNION { afterVerify(cfg, [req1 EXCEPT !.verified = v], user, st, n)
                     : v \in verifyToken(req.cred.token) }

authentication(cfg, req, st, n) ==
    IF ~Found(req.ctx, cxEnforce) THEN { Result(req, NoTask, n) }
    ELSE UNION { afterIdentity(cfg, [req EXCEPT !.cred = cred], st, n)
                 : cred \in IF req.cred.kind = "unread" THEN Credentials
                             ELSE {req.cred} }

-----------------------------------------------------------------------------
(* admissionHandler *)

\* regexp.MatchString of a literal pattern: it occurs somewhere in the value
MatchString(pattern, value) ==
    \E i \in 1..(Len(value) - Len(pattern) + 1) :
        SubSeq(value, i, i + Len(pattern) - 1) = pattern

\* audienceDenied with the test of ClientID inverted
audienceDenied_NoClientID(cfg, user) == cfg.ClientID = "" /\ ~isAudience(user, cfg.ClientID)

\* middleware.go:269
audienceDenied(cfg, user) == cfg.ClientID # "" /\ ~isAudience(user, cfg.ClientID)

\* rolesDenied looking at the first required role only
rolesDenied_FirstOnly(resource, user) ==
    Len(resource.Roles) > 0 /\ ~containedIn(resource.Roles[1], user.roles)

\* middleware.go:282-283
rolesDenied(resource, user) ==
    Len(resource.Roles) > 0 /\ ~hasRoles(resource.Roles, user.roles)

\* middleware.go:297-338
claimsDenied(cfg, user) ==
    \E claimName \in DOMAIN cfg.MatchClaims :
        LET got == StringClaim(user.claims, claimName)
        IN  got.err \/ ~got.found \/ ~MatchString(cfg.MatchClaims[claimName], got.value)

\* admission clearing the session cookies of a request it denies
admission_ClearsOnDeny(cfg, req) ==
    IF ~Found(req.ctx, cxEnforce) THEN req
    ELSE IF ~Found(req.ctx, userContextName) THEN [req EXCEPT !.panicked = TRUE]
    ELSE LET resource == req.ctx[cxEnforce]
             user == req.ctx[userContextName]
         IN  IF audienceDenied(cfg, user)
             THEN clearAllCookies(accessForbidden([req EXCEPT !.denied = "audience"]))
             ELSE IF rolesDenied(resource, user)
             THEN clearAllCookies(accessForbidden([req EXCEPT !.denied = "roles"]))
             ELSE IF claimsDenied(cfg, user)
             THEN clearAllCookies(accessForbidden([req EXCEPT !.denied = "claims"]))
             ELSE req

admission(cfg, req) ==
    IF ~Found(req.ctx, cxEnforce) THEN req
    ELSE IF ~Found(req.ctx, userContextName) THEN [req EXCEPT !.panicked = TRUE]
    ELSE LET resource == req.ctx[cxEnforce]
             user == req.ctx[userContextName]
         IN  IF audienceDenied(cfg, user)
             THEN accessForbidden([req EXCEPT !.denied = "audience"])
             ELSE IF rolesDenied(resource, user)
             THEN accessForbidden([req EXCEPT !.denied = "roles"])
             ELSE IF claimsDenied(cfg, user)
             THEN accessForbidden([req EXCEPT !.denied = "claims"])
             ELSE req

-----------------------------------------------------------------------------
(* upstreamHeadersHandler and the reverse proxy *)

\* http.Header.Add and http.Header.Set
Add(h, key, value) == Set(h, key, (IF key \in DOMAIN h THEN h[key] ELSE <<>>) \o <<value>>)
SetHeader(h, key, value) == Set(h, key, <<value>>)

RECURSIVE Join(_, _)
\* strings.Join
Join(list, sep) ==
    IF Len(list) = 0 THEN ""
    ELSE IF Len(list) = 1 THEN list[1]
    ELSE list[1] \o sep \o Join(Tail(list), sep)

RECURSIVE addStatic(_, _, _)
\* middleware.go:387-389
addStatic(h, static, keys) ==
    IF keys = {} THEN h
    ELSE LET k == CHOOSE x \in keys : TRUE
         IN  addStatic(Add(h, k, static[k]), static, keys \ {k})

RECURSIVE addCustom(_, _, _, _)
\* middleware.go:404-408
addCustom(h, custom, claims, i) ==
    IF i > Len(custom) THEN h
    ELSE addCustom(IF custom[i] \in DOMAIN claims
                   THEN Add(h, "X-Auth-" \o custom[i], claims[custom[i]])
                   ELSE h,
                   custom, claims, i + 1)

\* what the headers say of an expiry
ExpiresIn(user) == IF user.expired THEN "past" ELSE "future"

\* identityHeaders sending only the first role of the identity as X-Auth-Roles
identityHeaders_FirstRole(cfg, h, id) ==
    LET h1 == Add(h, "X-Auth-Userid", id.name)
        h2 == Add(h1, "X-Auth-Subject", id.id)
        h3 == Add(h2, "X-Auth-Username", id.name)
        h4 == Add(h3, "X-Auth-Email", id.email)
        h5 == Add(h4, "X-Auth-ExpiresIn", ExpiresIn(id))
        h6 == Add(h5, "X-Auth-Token", Encode(id.token))
        h7 == Add(h6, "X-Auth-Roles", IF Len(id.roles) = 0 THEN "" ELSE id.roles[1])
        h8 == SetHeader(h7, "Authorization", "Bearer " \o Encode(id.token))
    IN  addCustom(h8, cfg.AddClaims, id.claims, 1)

\* middleware.go:392-409
identityHeaders(cfg, h, id) ==
    LET h1 == Add(h, "X-Auth-Userid", id.name)
        h2 == Add(h1, "X-Auth-Subject", id.id)
        h3 == Add(h2, "X-Auth-Username", id.name)
        h4 == Add(h3, "X-Auth-Email", id.email)
        h5 == Add(h4, "X-Auth-ExpiresIn", ExpiresIn(id))
        h6 == Add(h5, "X-Auth-Token", Encode(id.token))
        h7 == Add(h6, "X-Auth-Roles", Join(id.roles, ","))
        h8 == SetHeader(h7, "Authorization", "Bearer " \o Encode(id.token))
    IN  addCustom(h8, cfg.AddClaims, id.claims, 1)

upstreamHeaders(cfg, req, supplied) ==
    LET h0 == addStatic(supplied, cfg.Headers, DOMAIN cfg.Headers)
        h1 == IF Found(req.ctx, userContextName)
              THEN identityHeaders(cfg, h0, req.ctx[userContextName])
              ELSE h0
        h2 == Add(h1, "X-Forwarded-For", "127.0.0.1:8989")
        h3 == SetHeader(h2, "X-Forwarded-Agent", "keycloak-proxy")
        h4 == SetHeader(h3, "X-Forwarded-Host", "127.0.0.1")
    IN  [req EXCEPT !.headers = h4]

\* the headers a client may send along under the names the proxy stamps
ClientHeaders == { EmptyMap, "X-Auth-Roles" :> <<"admin">> }

\* the last handler: the oauth sub-tree is served by the proxy's own handlers,
\* every other request goes to the upstream, which answers 200
proxy(req) ==
    IF HasPrefix(req.path, oauthURL) THEN req
    ELSE [req EXCEPT !.forwarded = TRUE, !.status = StatusOK, !.writes = @ + 1]

-----------------------------------------------------------------------------
(* The state machine *)

Init ==
    /\ config \in Configs
    /\ reqs = [r \in RequestIds |-> IdleRequest]
    /\ store \in IF config.UseStore THEN {EmptyMap, 0 :> "rt0"} ELSE {EmptyMap}
    /\ bg = [r \in RequestIds |-> NoTask]
    /\ issued = 0

\* the router accepts a request
Receive(r) ==
    /\ r \in DOMAIN reqs
    /\ reqs[r].pc = "idle"
    /\ \E path \in Paths, method \in Methods :
          reqs' = [reqs EXCEPT ![r] = [@ EXCEPT !.pc = Chain[1], !.path = path,
                                                !.method = method]]
    /\ UNCHANGED <<config, store, bg, issued>>

\* middleware.go:420-443: secure.Process accepts the request or answers it
securityHandler(r) ==
    /\ r \in DOMAIN reqs
    /\ reqs[r].pc = "security"
    /\ \E ok \in BOOLEAN :
          reqs' = [reqs EXCEPT ![r] =
                     Advance(IF ok THEN @ ELSE AbortWithStatus(@, StatusBadRequest, "security"))]
    /\ UNCHANGED <<config, store, bg, issued>>

entryPointHandler(r) ==
    /\ r \in DOMAIN reqs
    /\ reqs[r].pc = "entrypoint"
    /\ reqs' = [reqs EXCEPT ![r] = Advance(entryPoint(config, @))]
    /\ UNCHANGED <<config, store, bg, issued>>

authenticationHandler(r) ==
    /\ r \in DOMAIN reqs
    /\ reqs[r].pc = "authentication"
    /\ \E res \in authentication(config, reqs[r], store, issued) :
          /\ reqs' = [reqs EXCEPT ![r] = Advance(res.req)]
          /\ bg' = IF res.task = NoTask THEN bg ELSE [bg EXCEPT ![r] = res.task]
          /\ issued' = res.issued
    /\ UNCHANGED <<config, store>>

admissionHandler(r) ==
    /\ r \in DOMAIN reqs
    /\ reqs[r].pc = "admission"
    /\ reqs' = [reqs EXCEPT ![r] = Advance(admission(config, @))]
    /\ UNCHANGED <<config, store, bg, issued>>

upstreamHeadersHandler(r) ==
    /\ r \in DOMAIN reqs
    /\ reqs[r].pc = "headers"
    /\ \E supplied \in ClientHeaders :
          reqs' = [reqs EXCEPT ![r] = Advance(upstreamHeaders(config, @, supplied))]
    /\ UNCHANGED <<config, store, bg, issued>>

proxyHandler(r) ==
    /\ r \in DOMAIN reqs
    /\ reqs[r].pc = "proxy"
    /\ reqs' = [reqs EXCEPT ![r] = Advance(proxy(@))]
    /\ UNCHANGED <<config, store, bg, issued>>

\* DeleteRefreshToken reporting success while the entry stays in the store
DeleteRefreshToken_Keeps(r) ==
    /\ r \in DOMAIN reqs
    /\ bg[r].pc = "delete"
    /\ store' = store
    /\ bg' = [bg EXCEPT ![r].pc = "put"]
    /\ UNCHANGED <<config, reqs, issued>>

\* middleware.go:211-215: the background update deletes the old reference
DeleteRefreshToken(r) ==
    /\ r \in DOMAIN reqs
    /\ bg[r].pc = "delete"
    /\ \E ok \in BOOLEAN :
          /\ store' = IF ok THEN Remove(store, bg[r].t) ELSE store
          /\ bg' = [bg EXCEPT ![r].pc = "put", ![r].errs = IF ok THEN @ ELSE @ + 1]
    /\ UNCHANGED <<config, reqs, issued>>

\* StoreRefreshToken running only while its request is still being served
StoreRefreshToken_WithRequest(r) ==
    /\ r \in DOMAIN reqs
    /\ bg[r].pc = "put"
    /\ reqs[r].pc # "done"
    /\ \E ok \in BOOLEAN :
          /\ store' = IF ok THEN Set(store, bg[r].t, bg[r].rt) ELSE store
          /\ bg' = [bg EXCEPT ![r].pc = "done", ![r].errs = IF ok THEN @ ELSE @ + 1]
    /\ UNCHANGED <<config, reqs, issued>>

\* StoreRefreshToken whose failure is written to the response of the request
StoreRefreshToken_FailureShown(r) ==
    /\ r \in DOMAIN reqs
    /\ bg[r].pc = "put"
    /\ \E ok \in BOOLEAN :
          /\ store' = IF ok THEN Set(store, bg[r].t, bg[r].rt) ELSE store
          /\ bg' = [bg EXCEPT ![r].pc = "done", ![r].errs = IF ok THEN @ ELSE @ + 1]
          /\ reqs' = IF ok THEN reqs
                     ELSE [reqs EXCEPT ![r].status = StatusForbidden, ![r].writes = @ + 1]
    /\ UNCHANGED <<config, issued>>

\* middleware.go:217-224: the background update stores the refresh token
StoreRefreshToken(r) ==
    /\ r \in DOMAIN reqs
    /\ bg[r].pc = "put"
    /\ \E ok \in BOOLEAN :
          /\ store' = IF ok THEN Set(store, bg[r].t, bg[r].rt) ELSE store
          /\ bg' = [bg EXCEPT ![r].pc = "done", ![r].errs = IF ok THEN @ ELSE @ + 1]
    /\ UNCHANGED <<config, reqs, issued>>

Next ==
    \E r \in Sessions :
        \/ Receive(r)
        \/ securityHandler(r)
        \/ entryPointHandler(r)
        \/ authenticationHandler(r)
        \/ admissionHandler(r)
        \/ upstreamHeadersHandler(r)
        \/ proxyHandler(r)
        \/ DeleteRefreshToken(r)
        \/ StoreRefreshToken(r)

Spec == Init /\ [][Next]_vars

-----------------------------------------------------------------------------
(* Two requests of one browser session, refreshing through the store *)

\* the expired access token of the session, as its cookie carries it
SessionToken ==
    Token(TRUE, (claimAudience :> StringValue(fakeClientID))
                @@ (claimIssuer :> StringValue(<<"k">>)))

SessionCookie == [kind |-> "cookie", token |-> SessionToken]

\* refreshing is enabled and the refresh tokens are kept in the store
RefreshConfig ==
    [ Resources |-> <<Resource(<<"/admin">>, <<"ANY">>, <<>>, FALSE)>>,
      ClientID |-> fakeClientID,
      SkipClientID |-> FALSE,
      SkipTokenVerification |-> FALSE,
      EnableRefreshTokens |-> TRUE,
      NoRedirects |-> FALSE,
      MatchClaims |-> EmptyMap,
      Headers |-> EmptyMap,
      AddClaims |-> <<>>,
      UseStore |-> TRUE ]

\* both requests are about to arrive with the session cookie; the store holds
\* the session's refresh token under its access token
InitRefresh ==
    /\ config = RefreshConfig
    /\ reqs = [r \in Sessions |-> [IdleRequest EXCEPT !.cred = SessionCookie]]
    /\ store = (SessionToken.id :> "rt0")
    /\ bg = [r \in Sessions |-> NoTask]
    /\ issued = 0

\* a goroutine that was started is scheduled until it returns
Fairness ==
    \A r \in Sessions :
        WF_vars(DeleteRefreshToken(r)) /\ WF_vars(StoreRefreshToken(r))

RefreshSpec == InitRefresh /\ [][Next]_vars /\ Fairness

-----------------------------------------------------------------------------
(* One request whose token carries any selection of the claims *)

\* each claim extractIdentity reads: absent, there as a string, or (sub, aud)
\* there as something else
SubClaims == { EmptyMap, "sub" :> StringValue("1e11e539"), "sub" :> OtherValue }
EmailClaims == { EmptyMap, "email" :> StringValue("gambol99@gmail.com") }
NameClaims == { EmptyMap, "preferred_username" :> StringValue("rjayawardene") }
AudClaims == { EmptyMap, claimAudience :> StringValue(fakeClientID), claimAudience :> OtherValue }

RealmAccess(roles) == "realm_access" :> [kind |-> "map", roles |-> roles]
ResourceAccess(clients) == "resource_access" :> [kind |-> "map", clients |-> clients]

RealmRoleClaims == { EmptyMap, RealmAccess(<<"admin">>), RealmAccess(<<"user", "admin">>) }

\* the clients of resource_access in the order the map is ranged over
ClientRoleClaims ==
    { EmptyMap,
      ResourceAccess(<< [name |-> "openvpn", roles |-> <<"dev-vpn", "ops">>] >>),
      ResourceAccess(<< [name |-> "openvpn", roles |-> <<"dev-vpn", "ops">>],
                        [name |-> "defaults", roles |-> <<"dev">>] >>),
      ResourceAccess(<< [name |-> "defaults", roles |-> <<"dev">>],
                        [name |-> "openvpn", roles |-> <<"dev-vpn", "ops">>] >>) }

ClaimTokens ==
    { [id |-> 0, expired |-> e, claims |-> s @@ m @@ p @@ a @@ rl @@ ac] :
        e \in BOOLEAN, s \in SubClaims, m \in EmailClaims, p \in NameClaims,
        a \in AudClaims, rl \in RealmRoleClaims, ac \in ClientRoleClaims }

ClaimCredentials == { [kind |-> k, token |-> t] : k \in {"bearer", "cookie"}, t \in ClaimTokens }

InitIdentity ==
    /\ config = RefreshConfig
    /\ \E cred \in ClaimCredentials :
          reqs = [r \in RequestIds |-> [IdleRequest EXCEPT !.cred = cred]]
    /\ store = (0 :> "rt0")
    /\ bg = [r \in RequestIds |-> NoTask]
    /\ issued = 0

IdentitySpec == InitIdentity /\ [][Next]_vars

-----------------------------------------------------------------------------
(* Properties *)

Range(list) == { list[i] : i \in 1..Len(list) }

Enforced(q) == Found(q.ctx, cxEnforce)
HasUser(q) == Found(q.ctx, userContextName)
User(q) == q.ctx[userContextName]
Protecting(q) == q.ctx[cxEnforce]

Later(stages) == stages \cup {"done"}
\* the stage has run for the request
RanEntryPoint(q) ==
    q.pc \in Later({"authentication", "admission", "headers", "proxy"}) /\ q.by # "security"
RanAuthentication(q) ==
    q.pc \in Later({"admission", "headers", "proxy"}) /\ q.by # "security"
RanAdmission(q) ==
    /\ q.pc \in Later({"headers", "proxy"})
    /\ q.by \notin {"security", "redirectToAuthorization"}
    /\ q.by = "accessForbidden" => q.denied # "none"

\* verifyToken accepted the token, or found it expired and the refresh succeeded
Accepted(q) == q.verified = "ok" \/ (q.verified = "expired" /\ q.refresh = "ok")

\* verification is switched off and the token, never verified, has not expired
AcceptedUnverified(q) ==
    config.SkipTokenVerification /\ q.verified = "none" /\ ~User(q).expired

\* the audience, role and claim requirements, stated over sets
Admissible(cfg, resource, user) ==
    /\ cfg.ClientID = "" \/ user.audience = cfg.ClientID
    /\ Range(resource.Roles) \subseteq Range(user.roles)
    /\ \A c \in DOMAIN cfg.MatchClaims :
          /\ c \in DOMAIN user.claims
          /\ user.claims[c].kind = "string"
          /\ MatchString(cfg.MatchClaims[c], user.claims[c].val)

Answered(q) == q.by \in {"redirectToAuthorization", "accessForbidden"}

\* C1 as stated: a protected request is forwarded only with an identity, a
\* token that was verified or refreshed, and every admission check passed; a
\* request answered with a redirect, 401 or 403 is never forwarded.
C1_ForwardedOnlyVerified ==
    \A r \in RequestIds :
        LET q == reqs[r]
        IN  /\ (Enforced(q) /\ q.forwarded) =>
                  /\ HasUser(q)
                  /\ Accepted(q)
                  /\ q.denied = "none"
                  /\ Admissible(config, Protecting(q), User(q))
            /\ Answered(q) => ~q.forwarded

\* C1 amended: a protected request is forwarded only with an identity, a token
\* that was verified, or refreshed after expiry, or (SkipTokenVerification on)
\* left unverified but not expired, and every admission check passed; a request
\* answered with a redirect, 401 or 403 is never forwarded.
C1_ForwardedOnlyAdmitted ==
    \A r \in RequestIds :
        LET q == reqs[r]
        IN  /\ (Enforced(q) /\ q.forwarded) =>
                  /\ HasUser(q)
                  /\ Accepted(q) \/ AcceptedUnverified(q)
                  /\ q.denied = "none"
                  /\ Admissible(config, Protecting(q), User(q))
            /\ Answered(q) => ~q.forwarded

\* a protected request forwarded after a successful refresh
C1_Witness ==
    \E r \in RequestIds :
        /\ Enforced(reqs[r]) /\ reqs[r].forwarded
        /\ reqs[r].refresh = "ok"
        /\ Len(Protecting(reqs[r]).Roles) > 0

\* C2 as stated: a protected request with no token is answered 307 when
\* NoRedirects is false and 401 when it is true, and is not forwarded.  (With
\* NoRedirects and SkipTokenVerification both on, 401 and 403 are both taken
\* as meeting the claim.)
C2_NoTokenRedirected ==
    \A r \in RequestIds :
        LET q == reqs[r]
        IN  /\ (Enforced(q) /\ RanAuthentication(q)) => q.cred.kind # "unread"
            /\ q.cred.kind = "none" =>
                  /\ ~q.forwarded
                  /\ ~config.NoRedirects => q.status = StatusTemporaryRedirect
                  /\ (config.NoRedirects /\ ~config.SkipTokenVerification)
                        => q.status = StatusUnauthorized

\* C2 amended: a protected request with no token is never forwarded; it is
\* answered 307 when NoRedirects and SkipTokenVerification are both false, 401
\* when NoRedirects is true and SkipTokenVerification false, and 403 when
\* SkipTokenVerification is true and NoRedirects false.
C2_NoTokenAnswered ==
    \A r \in RequestIds :
        LET q == reqs[r]
        IN  /\ (Enforced(q) /\ RanAuthentication(q)) => q.cred.kind # "unread"
            /\ q.cred.kind = "none" =>
                  /\ Enforced(q) /\ ~q.forwarded /\ q.pc = "done"
                  /\ (~config.NoRedirects /\ ~config.SkipTokenVerification)
                        => q.status = StatusTemporaryRedirect
                  /\ (config.NoRedirects /\ ~config.SkipTokenVerification)
                        => q.status = StatusUnauthorized
                  /\ (~config.NoRedirects /\ config.SkipTokenVerification)
                        => q.status = StatusForbidden

\* a protected request without a token, answered with the redirect
C2_Witness ==
    \E r \in RequestIds :
        /\ reqs[r].cred.kind = "none" /\ Enforced(reqs[r])
        /\ reqs[r].status = StatusTemporaryRedirect /\ reqs[r].pc = "done"

\* C3: with SkipTokenVerification on, redirectToAuthorization never answers
\* with the redirect and answers 403 where it would have redirected
\* (NoRedirects off); a protected request whose token has expired is answered
\* by it and is not forwarded.
C3_SkipVerificationForbids ==
    \A r \in RequestIds :
        LET q == reqs[r]
        IN  config.SkipTokenVerification =>
              /\ q.by = "redirectToAuthorization" =>
                    /\ q.status # StatusTemporaryRedirect
                    /\ ~config.NoRedirects => q.status = StatusForbidden
                    /\ ~q.forwarded
              /\ (Enforced(q) /\ HasUser(q) /\ User(q).expired /\ RanAuthentication(q)) =>
                    /\ q.by = "redirectToAuthorization"
                    /\ ~q.forwarded

\* an expired token on a protected resource answered 403, verification off
C3_Witness ==
    \E r \in RequestIds :
        /\ config.SkipTokenVerification /\ ~config.NoRedirects
        /\ Enforced(reqs[r]) /\ HasUser(reqs[r]) /\ User(reqs[r]).expired
        /\ reqs[r].status = StatusForbidden /\ reqs[r].pc = "done"

\* index of the first entry whose url is a prefix of the path, 0 if none
FirstMatch(resources, path) ==
    LET S == { i \in 1..Len(resources) : HasPrefix(path, resources[i].URL) }
    IN  IF S = {} THEN 0 ELSE CHOOSE i \in S : \A j \in S : i <= j

\* the entry point has matched the request against the PolicyTable
Matched(q) == RanEntryPoint(q) /\ ~HasPrefix(q.path, oauthURL)

\* the request went through the chain untouched and reached the upstream
PassedThrough(q) ==
    /\ ~Enforced(q) /\ ~q.aborted /\ q.cred.kind = "unread"
    /\ q.pc = "done" => (q.forwarded /\ q.status = StatusOK)

\* the entry listing the method, or "ANY"
Lists(resource, method) == {"ANY", method} \cap Range(resource.Methods) # {}

\* C4 as stated: a request whose path is under the url of any whitelisted
\* resource is passed to the upstream with no Enforcing resource attached.
C4_WhiteListedPasses ==
    \A r \in RequestIds : \A i \in 1..Len(config.Resources) :
        LET q == reqs[r]
        IN  (Matched(q) /\ config.Resources[i].WhiteListed
               /\ HasPrefix(q.path, config.Resources[i].URL))
            => PassedThrough(q)

\* C4 amended: a request outside the /oauth sub-tree that the security filter
\* lets through and whose first prefix-matching resource, in declared order, is
\* whitelisted is passed to the upstream (200) without authentication or
\* admission: no Enforcing resource is attached to its context.
C4_FirstWhiteListedPasses ==
    \A r \in RequestIds :
        LET q == reqs[r]
            i == FirstMatch(config.Resources, q.path)
        IN  (Matched(q) /\ i # 0 /\ config.Resources[i].WhiteListed) => PassedThrough(q)

\* a request passed through a whitelisted entry that precedes one protecting it
C4_Witness ==
    \E r \in RequestIds :
        LET q == reqs[r]
            i == FirstMatch(config.Resources, q.path)
        IN  /\ Matched(q) /\ q.pc = "done" /\ q.forwarded
            /\ i # 0 /\ config.Resources[i].WhiteListed
            /\ \E j \in (i + 1)..Len(config.Resources) :
                  /\ HasPrefix(q.path, config.Resources[j].URL)
                  /\ ~config.Resources[j].WhiteListed
                  /\ Lists(config.Resources[j], q.method)

\* C5: once the audience check has passed, the roles check denies exactly when
\* some role of resource.roles is missing from user.roles, as sets; a request
\* it denies is answered 403, and no request missing a required role is
\* forwarded.
C5_RolesSubset ==
    \A r \in RequestIds :
        LET q == reqs[r]
            missing == ~(Range(Protecting(q).Roles) \subseteq Range(User(q).roles))
        IN  (Enforced(q) /\ HasUser(q)) =>
              /\ (RanAdmission(q) /\ q.denied # "audience") => (q.denied = "roles" <=> missing)
              /\ q.denied = "roles" =>
                    (q.status = StatusForbidden /\ q.by = "accessForbidden" /\ q.pc = "done")
              /\ missing => ~q.forwarded

\* a request admitted with its roles in another order than the resource's
C5_Witness ==
    \E r \in RequestIds :
        LET q == reqs[r]
        IN  /\ Enforced(q) /\ HasUser(q) /\ q.forwarded
            /\ Protecting(q).Roles = <<"role:dev", "admin">>
            /\ User(q).roles = <<"admin", "role:dev">>

\* C6: with ClientID configured and SkipClientID off, a protected request
\* whose token audience differs from ClientID is never forwarded and is
\* answered 403 by the admission stage when it gets there; an audience equal
\* to ClientID passes the audience check.
C6_AudiencePinned ==
    \A r \in RequestIds :
        LET q == reqs[r]
        IN  (config.ClientID # "" /\ ~config.SkipClientID /\ Enforced(q) /\ HasUser(q)) =>
              /\ User(q).audience # config.ClientID =>
                    /\ ~q.forwarded
                    /\ RanAdmission(q) =>
                          (q.denied = "audience" /\ q.status = StatusForbidden)
              /\ User(q).audience = config.ClientID => q.denied # "audience"

\* a verified token of another audience answered 403
C6_Witness ==
    \E r \in RequestIds :
        LET q == reqs[r]
        IN  /\ config.ClientID # "" /\ ~config.SkipClientID
            /\ Enforced(q) /\ HasUser(q) /\ q.verified = "ok"
            /\ User(q).audience # config.ClientID
            /\ q.denied = "audience" /\ q.status = StatusForbidden

\* C7: with SkipClientID on, a protected request whose token is accepted and
\* meets the role and claim requirements is admitted and forwarded (200)
\* whatever its audience.
C7_SkipClientIDAdmits ==
    \A r \in RequestIds :
        LET q == reqs[r]
        IN  (config.SkipClientID /\ Enforced(q) /\ HasUser(q) /\ RanAdmission(q)
               /\ Admissible([config EXCEPT !.ClientID = ""], Protecting(q), User(q)))
            => /\ q.denied = "none"
               /\ q.pc = "done" => (q.forwarded /\ q.status = StatusOK)

\* C8: a request whose first prefix-matching resource lists methods, none of
\* them the request method or "ANY", is Unprotected: it reaches the upstream
\* and no credential is looked at.
C8_MethodNotCovered ==
    \A r \in RequestIds :
        LET q == reqs[r]
            i == FirstMatch(config.Resources, q.path)
        IN  (Matched(q) /\ i # 0 /\ Len(config.Resources[i].Methods) > 0
               /\ ~Lists(config.Resources[i], q.method))
            => PassedThrough(q)

\* a POST forwarded past a resource that protects GET only
C8_Witness ==
    \E r \in RequestIds :
        LET q == reqs[r]
            i == FirstMatch(config.Resources, q.path)
        IN  /\ Matched(q) /\ q.pc = "done" /\ q.forwarded /\ q.method = "POST"
            /\ i # 0 /\ ~config.Resources[i].WhiteListed
            /\ config.Resources[i].Methods = <<"GET">>
            /\ Len(config.Resources[i].Roles) > 0

\* C9: a request whose first prefix-matching resource is not whitelisted and
\* has an empty methods list is Protected by that resource, whatever its method.
C9_EmptyMethodsProtect ==
    \A r \in RequestIds :
        LET q == reqs[r]
            i == FirstMatch(config.Resources, q.path)
        IN  (Matched(q) /\ i # 0 /\ ~config.Resources[i].WhiteListed
               /\ config.Resources[i].Methods = <<>>)
            => (Enforced(q) /\ Protecting(q) = config.Resources[i])

\* C10: the resource decision is that of the first entry, in declared order,
\* whose url is a prefix of the path: the request is Protected, by that entry,
\* exactly when there is one, it is not whitelisted and it lists the method or
\* "ANY"; no later entry has a say.
C10_FirstMatchDecides ==
    \A r \in RequestIds :
        LET q == reqs[r]
            i == FirstMatch(config.Resources, q.path)
        IN  Matched(q) =>
              /\ Enforced(q) <=> (/\ i # 0
                                   /\ ~config.Resources[i].WhiteListed
                                   /\ Lists(config.Resources[i], q.method))
              /\ Enforced(q) => Protecting(q) = config.Resources[i]

\* a request left Unprotected by its first match although a later entry
\* under which it also falls would protect it
C10_Witness ==
    \E r \in RequestIds :
        LET q == reqs[r]
            i == FirstMatch(config.Resources, q.path)
        IN  /\ Matched(q) /\ ~Enforced(q)
            /\ i # 0 /\ ~config.Resources[i].WhiteListed
            /\ \E j \in (i + 1)..Len(config.Resources) :
                  /\ HasPrefix(q.path, config.Resources[j].URL)
                  /\ Len(config.Resources[j].URL) > Len(config.Resources[i].URL)
                  /\ ~config.Resources[j].WhiteListed
                  /\ Lists(config.Resources[j], q.method)

\* the request lies in the reserved oauth sub-tree
Reserved(q) == HasPrefix(q.path, oauthURL)

\* C11: a request under the reserved /oauth prefix is Unprotected whatever the
\* PolicyTable contains: once the entry point has run no resource is attached
\* to its context, and the authentication and admission stages pass it on
\* without reading a token, extracting an identity or answering it.
C11_OAuthUnprotected ==
    \A r \in DOMAIN reqs :
        LET q == reqs[r]
        IN  (Reserved(q) /\ RanEntryPoint(q)) =>
                /\ ~Enforced(q)
                /\ ~HasUser(q)
                /\ q.cred.kind = "unread"
                /\ q.by = "none" /\ ~q.aborted /\ ~q.panicked

\* a tokenless request under /oauth has passed the admission stage although a
\* resource of the table covers its path and method
C11_Witness ==
    \E r \in DOMAIN reqs :
        LET q == reqs[r]
        IN  /\ Reserved(q) /\ q.pc \in {"headers", "proxy", "done"} /\ q.by = "none"
            /\ \E i \in 1..Len(config.Resources) :
                  /\ HasPrefix(q.path, config.Resources[i].URL)
                  /\ ~config.Resources[i].WhiteListed
                  /\ coversMethod(config.Resources[i], q.method)
                  /\ FirstMatch(config.Resources, q.path) = i

\* C12: when verification fails with an outcome other than Expired the request
\* is answered 403 at once by accessForbidden: no refresh token is looked up,
\* the IdP refresh endpoint is not called, no cookie is written, no store
\* update is dispatched and the request is not forwarded.
C12_InvalidForbidden ==
    \A r \in DOMAIN reqs :
        LET q == reqs[r]
        IN  q.verified = "invalid" =>
                /\ q.by = "accessForbidden" /\ q.aborted
                /\ q.status = StatusForbidden /\ q.writes = 1
                /\ q.denied = "none"
                /\ q.lookup = "none" /\ q.refresh = "none" /\ q.idpCalls = 0
                /\ q.cookies = EmptyMap
                /\ bg[r] = NoTask
                /\ ~q.forwarded

\* an expired session token failed verification for another reason, with
\* refreshing switched on and a refresh token waiting in the store
C12_Witness ==
    \E r \in DOMAIN reqs :
        LET q == reqs[r]
        IN  /\ q.verified = "invalid" /\ q.pc = "done"
            /\ q.cred.kind = "cookie" /\ q.cred.token.expired
            /\ config.EnableRefreshTokens /\ config.UseStore
            /\ q.cred.token.id \in DOMAIN store

\* C13: the IdP refresh endpoint is called for a request only when verification
\* returned Expired, EnableRefreshTokens is true and the identity did not come
\* from a bearer header; an expired token with refreshing disabled, or an
\* expired bearer token, is answered by redirectToAuthorization with no
\* refresh-token lookup and no IdP refresh call.
C13_RefreshOnlySessions ==
    \A r \in DOMAIN reqs :
        LET q == reqs[r]
        IN  /\ (q.idpCalls > 0 \/ q.lookup # "none" \/ q.refresh # "none") =>
                  /\ q.verified = "expired"
                  /\ config.EnableRefreshTokens
                  /\ HasUser(q) /\ ~isBearer(User(q))
                  /\ q.cred.kind = "cookie"
                  /\ q.idpCalls <= 1
            /\ (q.verified = "expired"
                   /\ (~config.EnableRefreshTokens \/ q.cred.kind = "bearer")) =>
                  /\ q.by = "redirectToAuthorization" /\ q.aborted
                  /\ q.status \in redirectStatuses(config)
                  /\ q.lookup = "none" /\ q.refresh = "none" /\ q.idpCalls = 0
                  /\ bg[r] = NoTask /\ q.cookies = EmptyMap
                  /\ ~q.forwarded

\* with refreshing enabled and a refresh token in the store, an expired bearer
\* token was redirected without a lookup
C13_Witness ==
    \E r \in DOMAIN reqs :
        LET q == reqs[r]
        IN  /\ q.verified = "expired" /\ q.cred.kind = "bearer"
            /\ config.EnableRefreshTokens /\ config.UseStore
            /\ q.cred.token.id \in DOMAIN store
            /\ q.by = "redirectToAuthorization" /\ q.pc = "done"

\* a cookie of the response that tells the browser to drop it
Cleared(q, name) ==
    /\ name \in DOMAIN q.cookies
    /\ q.cookies[name].value = "" /\ q.cookies[name].ttl < 0

\* C14: when the IdP refresh call fails with RefreshExpired, all session
\* cookies are cleared and the request is answered by redirectToAuthorization;
\* it is not forwarded to the upstream.
C14_RefreshExpiredClears ==
    \A r \in DOMAIN reqs :
        LET q == reqs[r]
        IN  q.refresh = "expired" =>
                /\ Cleared(q, cookieAccessName) /\ Cleared(q, cookieRefreshName)
                /\ q.by = "redirectToAuthorization" /\ q.aborted
                /\ q.status \in redirectStatuses(config) /\ q.writes = 1
                /\ bg[r] = NoTask
                /\ ~q.forwarded

\* the refresh of an expired session was refused as RefreshExpired and the
\* request has left the chain
C14_Witness ==
    \E r \in DOMAIN reqs :
        LET q == reqs[r]
        IN  /\ q.refresh = "expired" /\ q.lookup = "found" /\ q.idpCalls = 1
            /\ q.pc = "done" /\ q.status = StatusTemporaryRedirect

\* C15: when the IdP refresh call fails with an error other than
\* RefreshExpired, the request is answered by redirectToAuthorization and the
\* step leaves the session cookies and the refresh-token store unchanged; the
\* request is never forwarded.
C15_RefreshErrorKeeps ==
    [][\A r \in DOMAIN reqs :
          (reqs[r].refresh = "none" /\ reqs'[r].refresh = "error") =>
              /\ reqs'[r].cookies = reqs[r].cookies
              /\ reqs'[r].cookies = EmptyMap
              /\ store' = store /\ bg' = bg /\ bg[r] = NoTask
              /\ reqs'[r].by = "redirectToAuthorization" /\ reqs'[r].aborted
              /\ reqs'[r].status \in redirectStatuses(config)
              /\ ~reqs'[r].forwarded]_vars

\* a refresh failed on a transient error while the store held the session's
\* refresh token: the entry is still there
C15_Witness ==
    \E r \in DOMAIN reqs :
        LET q == reqs[r]
        IN  /\ q.refresh = "error" /\ q.lookup = "found" /\ q.idpCalls = 1
            /\ config.UseStore /\ q.cred.token.id \in DOMAIN store
            /\ q.cookies = EmptyMap
            /\ q.pc = "done" /\ q.by = "redirectToAuthorization"

\* the request refreshed its access token and its store update has run both
\* store operations without an error
Updated(r) ==
    /\ reqs[r].refresh = "ok"
    /\ bg[r].pc = "done" /\ bg[r].errs = 0

\* the access token the request presented, and the one the refresh issued
OldToken(r) == reqs[r].cred.token.id
NewToken(r) == User(reqs[r]).token

\* C16 as stated: after a successful refresh with an external store, once the
\* background update has completed the store holds no entry under the old
\* access token and holds the refresh token under the new access token, so a
\* lookup by the new access token finds it.
C16_StoredUnderNewToken ==
    \A r \in DOMAIN reqs :
        Updated(r) =>
            /\ OldToken(r) \notin DOMAIN store
            /\ NewToken(r) \in DOMAIN store
            /\ store[NewToken(r)] = bg[r].rt

\* the store update of the request has been dispatched
Dispatched(r) == bg[r].pc # "none"

\* C17: in a refresh with an external store the new access cookie is written
\* to the response before the store update is dispatched: whatever the update
\* has done so far, the response already held the cookie with the new access
\* token when the update was dispatched, and holds it still.
C17_CookieBeforeDispatch ==
    \A r \in DOMAIN reqs :
        Dispatched(r) =>
            /\ reqs[r].refresh = "ok" /\ config.UseStore
            /\ NewToken(r) # OldToken(r)
            /\ bg[r].sent = Encode(NewToken(r))
            /\ CookieValue(reqs[r], cookieAccessName) = Encode(NewToken(r))
            /\ reqs[r].cookies[cookieAccessName].ttl = IdleDuration
            /\ cookieRefreshName \notin DOMAIN reqs[r].cookies

\* the response has gone out with the new access cookie while the store update
\* has not yet deleted the old entry
C17_Witness ==
    \E r \in DOMAIN reqs :
        /\ bg[r].pc = "delete" /\ OldToken(r) \in DOMAIN store
        /\ reqs[r].pc = "done" /\ reqs[r].forwarded
        /\ CookieValue(reqs[r], cookieAccessName) = Encode(NewToken(r))

\* the positions a store update goes through, in order
UpdateOrder == { <<"none", "delete">>, <<"delete", "put">>, <<"put", "done">> }

C19_LastWriterResolves ==
    \A r1 \in DOMAIN reqs : \A r2 \in DOMAIN reqs \ {r1} :
        (Updated(r1) /\ Updated(r2) /\ OldToken(r1) = OldToken(r2)) =>
            /\ reqs[r1].by = "none" /\ reqs[r2].by = "none"
            /\ Cardinality(DOMAIN store) = 1
            /\ DOMAIN store \subseteq {NewToken(r1), NewToken(r2)}

\* a step of the request's own chain, and a step of its store update
RequestStep(r) ==
    \/ securityHandler(r) \/ entryPointHandler(r) \/ authenticationHandler(r)
    \/ admissionHandler(r) \/ upstreamHeadersHandler(r) \/ proxyHandler(r)
UpdateStep(r) == DeleteRefreshToken(r) \/ StoreRefreshToken(r)

\* the store update was dispatched and has not returned
Pending(r) == bg[r].pc \in {"delete", "put"}
InFlight(r) == reqs[r].pc \notin {"idle", "done"}

\* C20: the request that triggered a refresh does not wait for the store: while
\* its store update is pending the request can always take its next step down
\* the chain; and the update does not depend on the request: it can always
\* take its next step, whether the request is still served or has finished,
\* and once dispatched it eventually runs to completion.
C20_FireAndForget ==
    /\ [](\A r \in Sessions : (Pending(r) /\ InFlight(r)) => ENABLED RequestStep(r))
    /\ [](\A r \in Sessions : Pending(r) => ENABLED UpdateStep(r))
    /\ \A r \in Sessions : Pending(r) ~> (bg[r].pc = "done")

\* both requests have been answered by the upstream while neither store update
\* has run its first operation
C20_Witness ==
    \A r \in Sessions :
        /\ reqs[r].pc = "done" /\ reqs[r].forwarded /\ reqs[r].status = StatusOK
        /\ bg[r].pc = "delete"

\* C21: when the access token has expired and no refresh token can be located
\* (no store entry, or a refresh cookie that is missing or does not decrypt)
\* the request is answered by redirectToAuthorization, never by
\* accessForbidden; the IdP refresh endpoint is not called and nothing is
\* written to the cookies or the store.
C21_NoRefreshTokenRedirects ==
    \A r \in DOMAIN reqs :
        LET q == reqs[r]
        IN  q.lookup \in {"missing", "undecryptable"} =>
                /\ q.verified = "expired"
                /\ q.by = "redirectToAuthorization" /\ q.aborted
                /\ q.status \in redirectStatuses(config) /\ q.writes = 1
                /\ q.status # StatusForbidden
                /\ q.refresh = "none" /\ q.idpCalls = 0
                /\ q.cookies = EmptyMap /\ bg[r] = NoTask
                /\ ~q.forwarded

\* the store had no entry for the expired access token and the request was
\* redirected
C21_Witness ==
    \E r \in DOMAIN reqs :
        LET q == reqs[r]
        IN  /\ config.UseStore /\ store = EmptyMap
            /\ q.lookup = "missing" /\ q.pc = "done"
            /\ q.status = StatusTemporaryRedirect

\* the refresh cookie did not decrypt and the request was redirected
C21_WitnessCookie ==
    \E r \in DOMAIN reqs :
        LET q == reqs[r]
        IN  /\ ~config.UseStore
            /\ q.lookup = "undecryptable" /\ q.pc = "done"
            /\ q.status = StatusTemporaryRedirect

\* the value the upstream reads under a header name: the first one, as
\* http.Header.Get returns it, "" if there is none
Get(h, key) == IF key \in DOMAIN h /\ Len(h[key]) > 0 THEN h[key][1] ELSE ""

\* C22: for a request with an expired access token, a valid refresh cookie and
\* EnableRefreshTokens on, the IdP refresh endpoint is called exactly once, the
\* response sets the access cookie to the new token, the request goes on to
\* admission, and what reaches the upstream carries Authorization: Bearer
\* with the new token, not the expired one.
C22_RefreshedOnce ==
    \A r \in DOMAIN reqs :
        LET q == reqs[r]
        IN  (q.refresh = "ok" /\ ~config.UseStore) =>
                /\ q.verified = "expired" /\ config.EnableRefreshTokens
                /\ q.idpCalls = 1
                /\ NewToken(r) # OldToken(r)
                /\ CookieValue(q, cookieAccessName) = Encode(NewToken(r))
                /\ CookieValue(q, cookieRefreshName) = "rt0"
                /\ q.by # "redirectToAuthorization"
                /\ q.pc \in {"headers", "proxy", "done"} => RanAdmission(q)
                /\ q.pc \in {"proxy", "done"} /\ ~q.aborted =>
                      /\ q.headers["Authorization"] = <<"Bearer " \o Encode(NewToken(r))>>
                      /\ Get(q.headers, "Authorization") # "Bearer " \o Encode(OldToken(r))
                /\ (q.pc = "done" /\ ~q.aborted) => (q.forwarded /\ q.status = StatusOK)

\* a request refreshed from its refresh cookie has been answered 200 by the
\* upstream
C22_Witness ==
    \E r \in DOMAIN reqs :
        LET q == reqs[r]
        IN  /\ q.refresh = "ok" /\ ~config.UseStore /\ q.lookup = "found"
            /\ q.pc = "done" /\ q.forwarded /\ q.status = StatusOK
            /\ Get(q.headers, "Authorization") = "Bearer " \o Encode(issued)

\* the last value of a header: the one the proxy added, if it added one
Last(h, key) == IF key \in DOMAIN h /\ Len(h[key]) > 0 THEN h[key][Len(h[key])] ELSE ""

\* the request was admitted with an identity and handed to the upstream
ForwardedAs(q) == q.forwarded /\ Enforced(q) /\ HasUser(q)

\* C23: every request that holds all the required roles and passes the claim
\* regexes reaches the upstream with Authorization: Bearer <token> of the
\* admitted identity and with an X-Auth-Roles value that holds every role of
\* the user, joined with commas in the order of user.roles.
C23_UpstreamSeesRoles ==
    \A r \in DOMAIN reqs :
        LET q == reqs[r]
            roles == User(q).roles
            sent == Last(q.headers, "X-Auth-Roles")
        IN  ForwardedAs(q) =>
                /\ Admissible(config, Protecting(q), User(q))
                /\ q.headers["Authorization"] = <<"Bearer " \o Encode(User(q).token)>>
                /\ "X-Auth-Roles" \in DOMAIN q.headers
                /\ sent = Join(roles, ",")
                /\ roles = <<>> => sent = ""
                /\ roles = <<"admin">> => sent = "admin"
                /\ roles = <<"role:dev">> => sent = "role:dev"
                /\ roles = <<"admin", "role:dev">> => sent = "admin,role:dev"
                /\ roles \in {<<>>, <<"admin">>, <<"role:dev">>, <<"admin", "role:dev">>}

\* a user with a realm role and a client role was admitted to a resource that
\* requires both, and the upstream got them joined
C23_Witness ==
    \E r \in DOMAIN reqs :
        LET q == reqs[r]
        IN  /\ ForwardedAs(q) /\ q.pc = "done"
            /\ Protecting(q).Roles = <<"role:dev", "admin">>
            /\ User(q).roles = <<"admin", "role:dev">>
            /\ q.headers["X-Auth-Roles"] = <<"admin,role:dev">>

\* an identity with nothing in it
NoIdentity ==
    [ id |-> "", name |-> "", audience |-> "", preferredName |-> "", email |-> "",
      expired |-> FALSE, roles |-> <<>>, token |-> 0, claims |-> EmptyMap,
      bearerToken |-> FALSE ]

\* the identity headers and the values the proxy derives for them
IdentityHeaders(id) ==
    ("X-Auth-Userid" :> id.name) @@ ("X-Auth-Subject" :> id.id)
    @@ ("X-Auth-Username" :> id.name) @@ ("X-Auth-Email" :> id.email)
    @@ ("X-Auth-ExpiresIn" :> ExpiresIn(id)) @@ ("X-Auth-Token" :> Encode(id.token))
    @@ ("X-Auth-Roles" :> Join(id.roles, ","))
    @@ ("Authorization" :> "Bearer " \o Encode(id.token))

\* C24 as stated: for every request reaching the upstream with an identity, the
\* values the upstream sees under the identity header names are exactly those
\* derived from the identity and replace whatever the client supplied under
\* those names.
C24_IdentityHeadersReplace ==
    \A r \in DOMAIN reqs :
        LET q == reqs[r]
            derived == IdentityHeaders(User(q))
        IN  ForwardedAs(q) =>
                \A name \in DOMAIN derived :
                    /\ name \in DOMAIN q.headers
                    /\ q.headers[name] = <<derived[name]>>

\* the names of the X-Auth-* headers
XAuthNames == DOMAIN IdentityHeaders(NoIdentity) \ {"Authorization"}

\* C25 as stated: every request whose path is matched by no resource reaches the
\* upstream with no X-Auth-* header.
C25_UnmatchedNoIdentityHeaders ==
    \A r \in DOMAIN reqs :
        LET q == reqs[r]
        IN  (q.forwarded /\ FirstMatch(config.Resources, q.path) = 0) =>
                DOMAIN q.headers \cap XAuthNames = {}

\* the whole value matches a literal pattern
MatchesFully(pattern, value) == value = pattern

\* C26 as stated: admission passes an entry (claimName, regex) of the
\* match-claims table only if the token has that claim as a string and the
\* whole claim value matches the regex; a missing claim, a non-string claim or
\* a value of which only a part matches is answered 403.
C26_ClaimsMatchFully ==
    \A r \in DOMAIN reqs :
        LET q == reqs[r]
        IN  (Enforced(q) /\ HasUser(q) /\ RanAdmission(q)) =>
                \A c \in DOMAIN config.MatchClaims :
                    LET got == StringClaim(User(q).claims, c)
                    IN  (got.err \/ ~got.found
                           \/ ~MatchesFully(config.MatchClaims[c], got.value)) =>
                            /\ q.by = "accessForbidden"
                            /\ q.status = StatusForbidden
                            /\ ~q.forwarded

\* the roles a token grants, read off its claims: the realm roles as a list,
\* the client roles as the set of "k:r"
RealmRolesOf(claims) ==
    IF "realm_access" \in DOMAIN claims THEN claims["realm_access"].roles ELSE <<>>
ClientsOf(claims) ==
    IF "resource_access" \in DOMAIN claims THEN claims["resource_access"].clients ELSE <<>>
ClientRolesOf(claims) ==
    { ClientsOf(claims)[i].name \o ":" \o ClientsOf(claims)[i].roles[j] :
        <<i, j>> \in { p \in (1..Len(ClientsOf(claims))) \X (1..2) :
                         p[2] <= Len(ClientsOf(claims)[p[1]].roles) } }

\* C27: extractIdentity returns as user.roles exactly the realm roles of
\* realm_access.roles verbatim, followed by each role r of each client k of
\* resource_access as "k:r"; a token with no realm_access yields only the
\* client roles, and no other role string is produced.
C27_RolesOfToken ==
    \A r \in DOMAIN reqs :
        LET q == reqs[r]
            claims == q.cred.token.claims
            roles == User(q).roles
            realm == RealmRolesOf(claims)
            rest == SubSeq(roles, Len(realm) + 1, Len(roles))
        IN  HasUser(q) =>
                /\ Len(roles) = Len(realm) + Cardinality(ClientRolesOf(claims))
                /\ SubSeq(roles, 1, Len(realm)) = realm
                /\ Range(rest) = ClientRolesOf(claims)
                /\ "realm_access" \notin DOMAIN claims => Range(roles) = ClientRolesOf(claims)
                /\ Range(roles) \subseteq
                      {"admin", "user", "openvpn:dev-vpn", "openvpn:ops", "defaults:dev"}

\* an identity was extracted from a token with two realm roles and two clients
C27_Witness ==
    \E r \in DOMAIN reqs :
        LET q == reqs[r]
        IN  /\ HasUser(q) /\ q.pc = "done"
            /\ User(q).roles = <<"user", "admin", "defaults:dev", "openvpn:dev-vpn", "openvpn:ops">>

\* an identity was extracted from a token without realm_access
C27_WitnessClientOnly ==
    \E r \in DOMAIN reqs :
        LET q == reqs[r]
        IN  /\ HasUser(q) /\ "realm_access" \notin DOMAIN q.cred.token.claims
            /\ User(q).roles = <<"openvpn:dev-vpn", "openvpn:ops">>

\* the token has the claim as a string, or has no such claim at all
Has(claims, name) == name \in DOMAIN claims /\ claims[name].kind = "string"
Lacks(claims, name) == name \notin DOMAIN claims

\* the request was protected and the authentication stage has read its token
Examined(q) == Enforced(q) /\ RanAuthentication(q)

\* the e-mail address of the token, "" if it has none
EmailOf(claims) == IF Has(claims, "email") THEN claims["email"].val ELSE ""

\* the name extractIdentity is to give: preferred_username, else the e-mail
NameOf(claims) ==
    IF Has(claims, "preferred_username") THEN claims["preferred_username"].val
    ELSE EmailOf(claims)

\* C28 as stated: extractIdentity fails with the no-audience error when the
\* token has no aud claim, and aud is the only claim whose absence makes it
\* fail: a token that has aud but lacks any other claim still yields a
\* UserContext, whose preferredName falls back to email.
C28_OnlyAudienceRequired ==
    \A r \in DOMAIN reqs :
        LET q == reqs[r]
            claims == q.cred.token.claims
        IN  (Examined(q) /\ \A c \in DOMAIN claims : claims[c].kind # "other") =>
                /\ Lacks(claims, claimAudience) =>
                      (~HasUser(q) /\ q.err = "ErrNoTokenAudience")
                /\ Has(claims, claimAudience) =>
                      (HasUser(q) /\ User(q).preferredName = NameOf(claims))

\* C28: extractIdentity fails when the token has no sub claim, and fails with
\* the no-audience error when it has sub but no aud claim (or an aud that is
\* not a string); sub and aud are the only claims whose absence makes it fail:
\* a token that has both yields a UserContext whatever else it lacks, with
\* preferredName and name falling back to email when preferred_username is
\* absent.
C28_SubjectAndAudienceRequired ==
    \A r \in DOMAIN reqs :
        LET q == reqs[r]
            claims == q.cred.token.claims
        IN  Examined(q) =>
                /\ HasUser(q) <=> (Has(claims, "sub") /\ Has(claims, claimAudience))
                /\ Lacks(claims, "sub") => q.err = "ErrMissingSubject"
                /\ (Has(claims, "sub") /\ ~Has(claims, claimAudience)) =>
                      q.err = "ErrNoTokenAudience"
                /\ HasUser(q) =>
                      /\ q.err = ""
                      /\ User(q).preferredName = NameOf(claims)
                      /\ User(q).name = NameOf(claims)
                      /\ User(q).email = EmailOf(claims)
                      /\ User(q).id = claims["sub"].val
                      /\ User(q).audience = claims[claimAudience].val

\* a token with sub and aud and nothing else but an e-mail address gave an
\* identity named by the e-mail address
C28_Witness ==
    \E r \in DOMAIN reqs :
        LET q == reqs[r]
        IN  /\ Examined(q) /\ HasUser(q)
            /\ DOMAIN q.cred.token.claims = {"sub", claimAudience, "email"}
            /\ User(q).preferredName = "gambol99@gmail.com"

\* how the authentication stage leaves a request in which it found no session
AnsweredAsNoSession(q) ==
    /\ q.err = "ErrSessionNotFound"
    /\ ~HasUser(q)
    /\ q.by = "redirectToAuthorization" /\ q.aborted
    /\ q.status \in redirectStatuses(config) /\ q.writes = 1
    /\ q.verified = "none" /\ q.lookup = "none" /\ q.refresh = "none"
    /\ q.denied = "none" /\ q.cookies = EmptyMap
    /\ ~q.forwarded

Extracted(q) == getIdentity(q.cred).val

\* two identities that differ at most in their token
SameBut(u, v) == [u EXCEPT !.token = v.token] = v

\* C30: within one request the UserContext of the context is never changed
\* after extraction, except that a successful refresh replaces its token: at
\* admission and at header injection its id, email, name, audience, roles,
\* claims, expiry and bearer flag are those extracted, also after a refresh,
\* and the headers sent upstream are derived from them.
C30_IdentityImmutable ==
    /\ [](\A r \in DOMAIN reqs :
            LET q == reqs[r]
            IN  HasUser(q) =>
                    /\ SameBut(Extracted(q), User(q))
                    /\ User(q).token # Extracted(q).token <=> q.refresh = "ok"
                    /\ q.refresh = "ok" => User(q).expired
                    /\ (q.pc \in {"proxy", "done"} /\ ~q.aborted) =>
                          /\ Last(q.headers, "X-Auth-Email") = Extracted(q).email
                          /\ Last(q.headers, "X-Auth-Subject") = Extracted(q).id
                          /\ Last(q.headers, "X-Auth-Userid") = Extracted(q).name
                          /\ Last(q.headers, "X-Auth-Roles") = Join(Extracted(q).roles, ",")
                          /\ Last(q.headers, "X-Auth-ExpiresIn") = ExpiresIn(Extracted(q)))
    /\ [][\A r \in DOMAIN reqs :
            HasUser(reqs[r]) => (HasUser(reqs'[r]) /\ User(reqs'[r]) = User(reqs[r]))]_vars

\* a refreshed request has reached the upstream: its identity carries the new
\* token and is otherwise the one extracted from the expired token
C30_Witness ==
    \E r \in DOMAIN reqs :
        LET q == reqs[r]
        IN  /\ q.refresh = "ok" /\ q.pc = "done" /\ q.forwarded
            /\ User(q).token # Extracted(q).token
            /\ User(q).expired /\ Len(User(q).roles) = 2

\* the response of a request that has refreshed its token and left the chain,
\* as the configuration, the identity and the refresh alone determine it
RefreshedOutcome(r) ==
    LET q == reqs[r]
        admitted == Admissible(config, Protecting(q), User(q))
    IN  /\ q.status = IF admitted THEN StatusOK ELSE StatusForbidden
        /\ q.writes = 1
        /\ q.forwarded = admitted
        /\ CookieValue(q, cookieAccessName) = Encode(NewToken(r))
        /\ DOMAIN q.cookies = IF config.UseStore THEN {cookieAccessName}
                              ELSE {cookieAccessName, cookieRefreshName}
        /\ admitted => \A name \in DOMAIN IdentityHeaders(User(q)) :
                          Last(q.headers, name) = IdentityHeaders(User(q))[name]
        /\ ~admitted => q.headers = EmptyMap

\* C31: the outcome of a request that refreshed its token (status, cookies
\* set, headers sent upstream) is the same whether the Delete and the Put of
\* its store update succeed or fail: no step of the update changes anything of
\* the request, and the response is the one the configuration, the identity
\* and the new token determine, however many store operations failed.
C31_StoreFailureUnseen ==
    /\ [](\A r \in DOMAIN reqs :
            (reqs[r].refresh = "ok" /\ reqs[r].pc = "done") => RefreshedOutcome(r))
    /\ [][\A r \in DOMAIN reqs :
            (Pending(r) /\ bg'[r] # bg[r]) => reqs' = reqs]_vars

\* a refreshed request was answered 200 by the upstream although both store
\* operations of its update failed
C31_Witness ==
    \E r \in DOMAIN reqs :
        /\ reqs[r].refresh = "ok" /\ reqs[r].pc = "done"
        /\ reqs[r].forwarded /\ reqs[r].status = StatusOK
        /\ bg[r].pc = "done" /\ bg[r].errs = 2

\* C32: at most one refresh persistence mode is active in a successful
\* refresh.  With an external store the refresh cookie is not written and the
\* store update is dispatched with the refresh token; without one the refresh
\* cookie is set again, living twice as long as the access cookie, no store
\* update is ever dispatched and the store is never touched.
C32_OnePersistenceMode ==
    /\ [](\A r \in DOMAIN reqs :
            LET q == reqs[r]
            IN  /\ q.refresh = "ok" /\ config.UseStore =>
                      /\ cookieRefreshName \notin DOMAIN q.cookies
                      /\ Dispatched(r) /\ bg[r].rt # ""
                /\ q.refresh = "ok" /\ ~config.UseStore =>
                      /\ cookieRefreshName \in DOMAIN q.cookies
                      /\ q.cookies[cookieRefreshName].value = "rt0"
                      /\ q.cookies[cookieRefreshName].ttl
                            = 2 * q.cookies[cookieAccessName].ttl
                      /\ q.cookies[cookieRefreshName].ttl = 2 * IdleDuration
                /\ ~config.UseStore => ~Dispatched(r) /\ store = EmptyMap)
    /\ [][~config.UseStore => store' = store /\ bg' = bg]_vars

\* a refresh succeeded with the refresh token in the cookie, and the request
\* went on with the new refresh cookie in its response
C32_Witness ==
    \E r \in DOMAIN reqs :
        /\ reqs[r].refresh = "ok" /\ ~config.UseStore
        /\ reqs[r].pc = "done" /\ reqs[r].forwarded
        /\ cookieRefreshName \in DOMAIN reqs[r].cookies

\* a refresh succeeded with the refresh token in the store, and the store was
\* updated with no refresh cookie in the response
C32_WitnessStore ==
    \E r \in DOMAIN reqs :
        /\ reqs[r].refresh = "ok" /\ config.UseStore
        /\ bg[r].pc = "done" /\ bg[r].errs = 0
        /\ DOMAIN reqs[r].cookies = {cookieAccessName}

\* the step of request r is the one its admission handler takes
AdmissionStep(r) == reqs[r].pc = "admission" /\ reqs'[r] # reqs[r]

\* C33: the admission stage changes nothing but the response status.  Its step
\* leaves the request context (resource and user), the cookies of the
\* response, the headers, the store, the store updates and the IdP untouched;
\* when it admits, no status is written and the request goes on to the next
\* handler, and when it denies, the one thing written is the status 403.
C33_AdmissionFrame ==
    [][\A r \in DOMAIN reqs :
         AdmissionStep(r) =>
            LET q == reqs[r]
                p == reqs'[r]
            IN  /\ p.ctx = q.ctx /\ p.cookies = q.cookies /\ p.headers = q.headers
                /\ p.idpCalls = q.idpCalls /\ p.forwarded = q.forwarded
                /\ store' = store /\ bg' = bg /\ issued' = issued
                /\ IF p.denied = "none"
                   THEN /\ p.status = q.status /\ p.writes = q.writes
                        /\ ~p.aborted /\ p.pc = "headers"
                   ELSE /\ p.status = StatusForbidden /\ p.writes = q.writes + 1
                        /\ p.aborted /\ p.pc = "done"]_vars

\* admission denied a request whose token had just been refreshed: the new
\* access cookie is still in the 403 response
C33_Witness ==
    \E r \in DOMAIN reqs :
        /\ reqs[r].denied # "none" /\ reqs[r].status = StatusForbidden
        /\ reqs[r].refresh = "ok"
        /\ CookieValue(reqs[r], cookieAccessName) = Encode(NewToken(r))
        /\ Found(reqs[r].ctx, cxEnforce) /\ HasUser(reqs[r])

\* verification is switched off and the authentication handler has let a
\* protected request with an unexpired token through
Unverified(q) ==
    /\ config.SkipTokenVerification
    /\ Enforced(q) /\ HasUser(q) /\ ~User(q).expired
    /\ RanAuthentication(q)

\* C34: with SkipTokenVerification and a token that has not expired, neither
\* the signature verification nor the refresh path is invoked (no lookup of a
\* refresh token, no call to the IdP, no cookie written, no store update), the
\* authentication handler does not answer the request, and the request still
\* goes through admission: it reaches the upstream only when the audience,
\* role and claim checks pass, and is answered 403 by admission otherwise.
C34_SkipStillAdmits ==
    \A r \in DOMAIN reqs :
        LET q == reqs[r]
            admitted == Admissible(config, Protecting(q), User(q))
        IN  Unverified(q) =>
               /\ q.verified = "none" /\ q.lookup = "none" /\ q.refresh = "none"
               /\ q.idpCalls = 0 /\ q.cookies = EmptyMap /\ ~Dispatched(r)
               /\ q.by # "redirectToAuthorization"
               /\ q.pc \in Later({"headers", "proxy"}) => RanAdmission(q)
               /\ q.pc \in Later({"headers", "proxy"}) /\ ~admitted =>
                     /\ q.by = "accessForbidden" /\ q.status = StatusForbidden
                     /\ q.pc = "done" /\ ~q.forwarded
               /\ q.pc = "done" /\ admitted => q.forwarded /\ q.by = "none"

\* with verification switched off, a request with an unexpired token that
\* lacks a role of the resource was stopped by admission
C34_Witness ==
    \E r \in DOMAIN reqs :
        /\ Unverified(reqs[r]) /\ reqs[r].pc = "done"
        /\ reqs[r].denied = "roles" /\ reqs[r].status = StatusForbidden

\* with verification switched off, a request with an unexpired token passed
\* admission and reached the upstream
C34_WitnessForwarded ==
    \E r \in DOMAIN reqs :
        /\ Unverified(reqs[r]) /\ reqs[r].forwarded
        /\ Protecting(reqs[r]).Roles # <<>>

\* C35: the panic of the admission stage is unreachable.  No request ever
\* panics; whenever the admission handler is about to run with a protected
\* resource in the context, the user is in the context too; and a protected
\* request that the authentication handler left without a user was terminated
\* there by redirectToAuthorization, so admission never ran for it.
C35_NoPanic ==
    \A r \in DOMAIN reqs :
        LET q == reqs[r]
        IN  /\ ~q.panicked
            /\ q.pc = "admission" /\ Enforced(q) => HasUser(q)
            /\ Enforced(q) /\ ~HasUser(q) /\ q.pc \notin {"authentication"} =>
                  /\ q.pc = "done" /\ q.aborted
                  /\ q.by = "redirectToAuthorization"
                  /\ q.denied = "none" /\ ~q.forwarded

\* the admission handler is about to run for a protected request, with the
\* user the authentication handler has set
C35_Witness ==
    \E r \in DOMAIN reqs :
        /\ reqs[r].pc = "admission"
        /\ Enforced(reqs[r]) /\ HasUser(reqs[r])

\* a protected request without an identity was terminated by the
\* authentication handler
C35_WitnessNoIdentity ==
    \E r \in DOMAIN reqs :
        /\ Enforced(reqs[r]) /\ ~HasUser(reqs[r])
        /\ reqs[r].pc = "done" /\ reqs[r].by = "redirectToAuthorization"
        /\ reqs[r].cred.kind = "none"

\* the outcomes a request outside the reserved sub-tree has ended with
Outcomes(q) ==
    { o \in {"forwarded", "redirect", "unauthorized", "forbidden", "rejected"} :
        \/ o = "forwarded" /\ q.forwarded
        \/ o = "redirect" /\ q.by = "redirectToAuthorization"
                          /\ q.status = StatusTemporaryRedirect
        \/ o = "unauthorized" /\ q.by = "redirectToAuthorization"
                              /\ q.status = StatusUnauthorized
        \/ o = "forbidden" /\ q.by \in {"redirectToAuthorization", "accessForbidden"}
                           /\ q.status = StatusForbidden
        \/ o = "rejected" /\ q.by = "security" }

\* C36: every request handed to the chain ends with exactly one outcome among
\* forwarded to the upstream, redirect (307), 401, 403 and rejection by the
\* security filter, with one status written.  Once a stage has terminated the
\* request (the security filter, redirectToAuthorization in any branch of the
\* authentication handler, accessForbidden) no later stage runs: the request
\* is not forwarded, no upstream header is injected, and nothing of it
\* changes any more.  Requests under the reserved /oauth sub-tree, which the
\* proxy's own handlers answer, are outside the statement.
C36_OneOutcome ==
    /\ [](\A r \in DOMAIN reqs :
            LET q == reqs[r]
            IN  /\ q.aborted =>
                      /\ q.pc = "done" /\ ~q.forwarded /\ q.headers = EmptyMap
                      /\ q.writes = 1
                      /\ q.by \in {"security", "redirectToAuthorization", "accessForbidden"}
                /\ q.by # "none" => q.aborted
                /\ q.forwarded => q.status = StatusOK /\ q.writes = 1
                /\ q.pc = "done" /\ ~Reserved(q) =>
                      /\ Cardinality(Outcomes(q)) = 1
                      /\ q.writes = 1
                      /\ q.forwarded # q.aborted
                /\ q.pc # "done" => Outcomes(q) = {})
    /\ [][\A r \in DOMAIN reqs : reqs[r].aborted => reqs'[r] = reqs[r]]_vars

\* with verification switched off, a request with an expired token was
\* terminated by redirectToAuthorization in the authentication handler: 403,
\* not forwarded, no header injected
C36_Witness ==
    \E r \in DOMAIN reqs :
        /\ config.SkipTokenVerification /\ ~config.NoRedirects
        /\ HasUser(reqs[r]) /\ User(reqs[r]).expired
        /\ reqs[r].pc = "done" /\ reqs[r].aborted
        /\ reqs[r].by = "redirectToAuthorization"
        /\ Outcomes(reqs[r]) = {"forbidden"}

\* the security filter rejected a request before the entry point ran
C36_WitnessRejected ==
    \E r \in DOMAIN reqs :
        /\ reqs[r].pc = "done" /\ reqs[r].by = "security"
        /\ reqs[r].ctx = EmptyMap /\ reqs[r].cred.kind = "unread"

\* a request went through every stage and reached the upstream
C36_WitnessForwarded ==
    \E r \in DOMAIN reqs :
        /\ reqs[r].pc = "done" /\ Enforced(reqs[r])
        /\ Outcomes(reqs[r]) = {"forwarded"}

====
